---- MODULE Spec2Model ----
(***************************************************************************)
(* Model of the sudoku generator (engine/board.rs, board_generator.rs,     *)
(* game.rs).  The grid is scaled from 9x9 with 3x3 blocks to 4x4 with 2x2  *)
(* blocks: every definition is written in terms of BOARD_SIZE and          *)
(* BLOCK_SIZE exactly as the source is, only the two numbers are smaller.  *)
(* A Tile is 0 (Tile::Empty) or n in 1..BOARD_SIZE (Tile::Filled(n)).      *)
(***************************************************************************)
EXTENDS Integers, FiniteSets, Sequences, TLC

\* board.rs: BLOCK_SIZE = 3 and BOARD_SIZE = 9; scaled here to 2 and 2 * 2
BLOCK_SIZE == 2
BOARD_SIZE == BLOCK_SIZE * BLOCK_SIZE
BOARD_CELLS == BOARD_SIZE * BOARD_SIZE

Idx == 0 .. (BOARD_SIZE - 1)
Digits == 1 .. BOARD_SIZE
Empty == 0
Tiles == {Empty} \cup Digits

\* Coord::new
Coord(x, y) == [x |-> x, y |-> y]
Coords == {Coord(x, y) : x \in Idx, y \in Idx}

\* Coord::to_block_index
to_block_index(coord) ==
    (coord.y \div BLOCK_SIZE) * BLOCK_SIZE + (coord.x \div BLOCK_SIZE)

\* to_index_in_block with the row stride forgotten
to_index_in_block_no_scale(coord) ==
    (coord.y % BLOCK_SIZE) + (coord.x % BLOCK_SIZE)

\* Coord::to_index_in_block
to_index_in_block(coord) ==
    (coord.y % BLOCK_SIZE) * BLOCK_SIZE + (coord.x % BLOCK_SIZE)

\* Board::default
DefaultBoard ==
    [rows    |-> [r \in Idx |-> [k \in Idx |-> Empty]],
     columns |-> [c \in Idx |-> [k \in Idx |-> Empty]],
     blocks  |-> [b \in Idx |-> [k \in Idx |-> Empty]]]

\* Board::get_tile
get_tile(board, coord) == board.rows[coord.y][coord.x]

\* Board::set_tile_in_place: the three views are written one after the other
set_tile_in_place(board, coord, value) ==
    LET b1 == [board EXCEPT !.rows[coord.y][coord.x] = value]
        b2 == [b1 EXCEPT !.columns[coord.x][coord.y] = value]
    IN  [b2 EXCEPT !.blocks[to_block_index(coord)][to_index_in_block(coord)] = value]

\* Board::set_tile: a clone with the write applied
set_tile(board, coord, value) == set_tile_in_place(board, coord, value)

\* Board::is_valid_tile_set: no filled digit is seen twice
is_valid_tile_set(tiles) ==
    \A j \in Idx : tiles[j] = Empty \/ \A i \in 0 .. (j - 1) : tiles[i] # tiles[j]

\* verify_board with the loop over the blocks missing
verify_board_no_blocks(board) ==
    /\ \A row \in Idx : is_valid_tile_set(board.rows[row])
    /\ \A col \in Idx : is_valid_tile_set(board.columns[col])

\* Board::verify_board
verify_board(board) ==
    /\ \A row \in Idx : is_valid_tile_set(board.rows[row])
    /\ \A col \in Idx : is_valid_tile_set(board.columns[col])
    /\ \A block \in Idx : is_valid_tile_set(board.blocks[block])

\* Board::is_complete
is_complete(board) ==
    ~ \E row \in Idx : \E k \in Idx : board.rows[row][k] = Empty

\* Board::get_filled_tile_coords (the order of the Vec is lost in the shuffle
\* that follows every use, so the result is kept as a set)
get_filled_tile_coords(board) ==
    {coord \in Coords : get_tile(board, coord) # Empty}

\* results of the generator: Ok(board), or an error kind
Ok(board) == [kind |-> "Ok", board |-> board]
Err(kind) == [kind |-> kind]

\* position of a coordinate in the scan "for x { for y {" of try_fill_board
ScanPos(coord) == coord.x * BOARD_SIZE + coord.y

\* the first coordinate of a non-empty set in scan order
ScanFirst(coords) ==
    CHOOSE c \in coords : \A d \in coords : ScanPos(c) <= ScanPos(d)

\* update_board_with_random_number: every (num, new_board) that some shuffle
\* of the digits not in `excluding` makes it return; the empty set stands for
\* Err(NoNumberAvailable).  Every write of the loop goes to the same three
\* slots, so new_board at the return is `board` with the returned num written.
update_board_with_random_number(board, coord, excluding) ==
    {r \in {[num |-> n, board |-> set_tile_in_place(board, coord, n)] :
                n \in Digits \ excluding} : verify_board(r.board)}

RECURSIVE try_fill_board(_), FillLoop(_, _, _, _)

\* the loop with NoNumberAvailable of the recursive call returned, not retried
FillLoopNoRetry(board, coord, excluding_numbers, sub) ==
    LET upd == {r \in sub : r.num \notin excluding_numbers}
    IN  IF upd = {} THEN {Err("NoNumberAvailable")}
        ELSE UNION {r.results : r \in upd}

\* the `loop` of try_fill_board at the Empty coordinate `coord`: Ok of the
\* recursive call is returned, NoNumberAvailable of the recursive call goes
\* round the loop with num excluded, any other error is returned.  `sub`
\* holds, for every num update_board_with_random_number can return, what
\* try_fill_board can return on its new_board; upd is what
\* update_board_with_random_number returns with excluding_numbers excluded.
FillLoop(board, coord, excluding_numbers, sub) ==
    LET upd == {r \in sub : r.num \notin excluding_numbers}
    IN  IF upd = {} THEN {Err("NoNumberAvailable")}
        ELSE UNION {
            {s \in r.results : s.kind # "NoNumberAvailable"}
            \cup (IF Err("NoNumberAvailable") \in r.results
                  THEN FillLoop(board, coord, excluding_numbers \cup {r.num}, sub)
                  ELSE {})
            : r \in upd}

\* try_fill_board: the set of results over all outcomes of the shuffles.
\* coord is the first Empty coordinate of the scan.  What the recursive call
\* on a new_board can return does not depend on the excluded numbers, so it
\* is tabulated once per number (sub).
try_fill_board(board) ==
    IF \E c \in Coords : get_tile(board, c) = Empty
    THEN UNION {
        UNION {
            FillLoop(board, coord, {}, sub)
            : sub \in {{[num |-> r.num,
                         results |-> try_fill_board(r.board)] :
                          r \in update_board_with_random_number(
                                   board, coord, {})}}}
        : coord \in {ScanFirst({c \in Coords : get_tile(board, c) = Empty})}}
    ELSE IF is_complete(board) THEN {Ok(board)} ELSE {Err("Panic")}

\* is_replacable_by_something_else with the trials over 1..BOARD_SIZE, the
\* last digit never tried
is_replacable_short(board, coord) ==
    UNION {
        (IF \E t \in res : \E r \in t.results : r.kind = "Ok"
         THEN {"true"} ELSE {})
        \cup (IF \A t \in res :
                   t.results = {} \/ Err("NoNumberAvailable") \in t.results
              THEN {"false"} ELSE {})
        : res \in {{[i |-> t.i,
                     results |-> IF verify_board(t.updated_board)
                                 THEN try_fill_board(t.updated_board)
                                 ELSE {}] :
                       t \in {[i |-> i,
                               updated_board |-> set_tile(board, coord, i)] :
                              i \in {num \in 1 .. (BOARD_SIZE - 1) :
                                        num # get_tile(board, coord)}}}}}

\* the block `is_replacable_by_something_else` of try_empty_board: the values
\* has_options can end with after every digit i # original_value was tried
\* on board.set_tile(coord, Filled(i)); "other" is the return Err(err) of an
\* error that is neither Ok nor NoNumberAvailable
is_replacable_by_something_else(board, coord) ==
    UNION {
        (IF \E t \in res : \E r \in t.results :
               r.kind \notin {"Ok", "NoNumberAvailable"}
         THEN {"other"} ELSE {})
        \cup (IF \E t \in res : \E r \in t.results : r.kind = "Ok"
              THEN {"true"} ELSE {})
        \cup (IF \A t \in res :
                   t.results = {} \/ Err("NoNumberAvailable") \in t.results
              THEN {"false"} ELSE {})
        : res \in {{[i |-> t.i,
                     results |-> IF verify_board(t.updated_board)
                                 THEN try_fill_board(t.updated_board)
                                 ELSE {}] :
                       t \in {[i |-> i,
                               updated_board |-> set_tile(board, coord, i)] :
                              i \in {num \in Digits :
                                        num # get_tile(board, coord)}}}}}

\* the receiver had the trial been written with set_tile_in_place
set_tile_receiver_in_place(board, coord, value) ==
    set_tile_in_place(board, coord, value)

\* the receiver of board.set_tile(coord, value) after the call: set_tile
\* writes to self.to_owned(), the receiver is as it was
set_tile_receiver(board, coord, value) == board

\* the push done for every trial, whatever try_fill_board returned
push_always(coords, coord, has_options) == coords \cup {coord}

\* unreplacable_coords.push(random_tile_coord.clone()) in the Ok arm of the
\* trials: the Vec is only asked `contains`, so it is kept as a set
push_unreplacable(coords, coord, has_options) ==
    IF has_options = "true" THEN coords \cup {coord} ELSE coords

\* `if !is_replacable_by_something_else`
not_replacable(has_options) == has_options = "false"

\* the last digit the trial loop `for i in (1..BOARD_SIZE + 1)` writes
LastTried(board, coord) ==
    LET alts == {num \in Digits : num # get_tile(board, coord)}
    IN  CHOOSE n \in alts : \A m \in alts : m <= n

(***************************************************************************)
(* Bounds of the model                                                     *)
(***************************************************************************)
\* Game::new_random is called with max_tries in 0 .. MaxTries
MaxTries == 2
\* Carving shuffles: while more than FreeCells tiles are filled, only the
\* shuffle that puts the scan-first candidate first is followed; from
\* FreeCells filled tiles on, every shuffle is.
FreeCells == 6
\* try_fill_board inputs: a solved board with tiles emptied among the first
\* EmptiedSpan coordinates of the scan
EmptiedSpan == 8
\* Board writes: at most MaxWrites calls of set_tile / set_tile_in_place
MaxWrites == 2

\* the board set_tile_in_place makes of Board::default() when every
\* coordinate c is written with grid[c]
FromGrid(grid) ==
    [rows    |-> [y \in Idx |-> [x \in Idx |-> grid[Coord(x, y)]]],
     columns |-> [x \in Idx |-> [y \in Idx |-> grid[Coord(x, y)]]],
     blocks  |-> [b \in Idx |-> [k \in Idx |->
                    grid[Coord((b % BLOCK_SIZE) * BLOCK_SIZE + (k % BLOCK_SIZE),
                               (b \div BLOCK_SIZE) * BLOCK_SIZE
                                   + (k \div BLOCK_SIZE))]]]]

\* the board whose rows are the given tuples
FromRows(rs) == FromGrid([c \in Coords |-> rs[c.y + 1][c.x + 1]])

\* two boards try_fill_board(Board::default()) returns
SampleA ==
    FromRows(<<<<1, 2, 3, 4>>, <<3, 4, 1, 2>>, <<2, 1, 4, 3>>, <<4, 3, 2, 1>>>>)
SampleB ==
    FromRows(<<<<1, 2, 3, 4>>, <<3, 4, 2, 1>>, <<2, 1, 4, 3>>, <<4, 3, 1, 2>>>>)
SolvedSamples == {SampleA, SampleB}

\* what try_fill_board(Board::default()) returns, the boards it returns
\* bounded to the samples
FilledBoards ==
    {s \in try_fill_board(DefaultBoard) :
        s.kind = "Ok" => s.board \in SolvedSamples}

\* the candidates a followed shuffle can put first
ShuffleHeads(board, coords) ==
    IF coords = {} THEN {}
    ELSE IF Cardinality(get_filled_tile_coords(board)) > FreeCells
         THEN {ScanFirst(coords)}
         ELSE coords

VARIABLES pc, max_tries, desired_cells_given, i, solved_board, board,
          unreplacable_coords, filled_coords, has_replaced_a_tile, result,
          writes

vars == <<pc, max_tries, desired_cells_given, i, solved_board, board,
          unreplacable_coords, filled_coords, has_replaced_a_tile, result,
          writes>>

NoResult == [kind |-> "None"]

(***************************************************************************)
(* Game::new_random, BoardGenerator::new_board and try_empty_board         *)
(***************************************************************************)
Init ==
    /\ pc = "new_random"
    /\ max_tries \in 0 .. MaxTries
    /\ desired_cells_given \in 0 .. BOARD_CELLS
    /\ i = 0
    /\ solved_board = DefaultBoard
    /\ board = DefaultBoard
    /\ unreplacable_coords = {}
    /\ filled_coords = {}
    /\ has_replaced_a_tile = FALSE
    /\ result = NoResult
    /\ writes = 0

\* the loop over 0..=max_tries
NextTryInclusive ==
    /\ pc = "new_random"
    /\ i <= max_tries
    /\ pc' = "new_board"
    /\ UNCHANGED <<max_tries, desired_cells_given, i, solved_board, board,
                   unreplacable_coords, filled_coords, has_replaced_a_tile,
                   result, writes>>

\* `for i in 0..max_tries`: one more attempt
NextTry ==
    /\ pc = "new_random"
    /\ i < max_tries
    /\ pc' = "new_board"
    /\ UNCHANGED <<max_tries, desired_cells_given, i, solved_board, board,
                   unreplacable_coords, filled_coords, has_replaced_a_tile,
                   result, writes>>

\* the loop is over: Err(GameError::TriesExceeded)
TriesExceeded ==
    /\ pc = "new_random"
    /\ ~(i < max_tries)
    /\ pc' = "done"
    /\ result' = Err("TriesExceeded")
    /\ UNCHANGED <<max_tries, desired_cells_given, i, solved_board, board,
                   unreplacable_coords, filled_coords, has_replaced_a_tile,
                   writes>>

\* new_board: try_fill_board(Board::default()).unwrap(), then the call
\* try_empty_board(solved_board.clone(), desired_cells_given, Vec::new())
NewBoard ==
    /\ pc = "new_board"
    /\ \E r \in FilledBoards :
         IF r.kind = "Ok"
         THEN /\ solved_board' = r.board
              /\ board' = r.board
              /\ unreplacable_coords' = {}
              /\ pc' = "try_empty_board"
              /\ UNCHANGED result
         ELSE /\ pc' = "done"
              /\ result' = Err("Panic")
              /\ UNCHANGED <<solved_board, board, unreplacable_coords>>
    /\ UNCHANGED <<max_tries, desired_cells_given, i, filled_coords,
                   has_replaced_a_tile, writes>>

\* try_empty_board, up to the loop: the filled coordinates that are not
\* unreplacable, shuffled
TryEmptyBoard ==
    /\ pc = "try_empty_board"
    /\ filled_coords' = {coord \in get_filled_tile_coords(board) :
                            coord \notin unreplacable_coords}
    /\ has_replaced_a_tile' = FALSE
    /\ pc' = "for"
    /\ UNCHANGED <<max_tries, desired_cells_given, i, solved_board, board,
                   unreplacable_coords, result, writes>>

\* one round of `for random_tile_coord in filled_coords`: the trials of the
\* other digits (an Ok trial pushes the coordinate to unreplacable_coords),
\* then the tile is emptied and the loop left, or the loop goes on
ForTile ==
    /\ pc = "for"
    /\ \E random_tile_coord \in ShuffleHeads(board, filled_coords) :
         IF get_tile(board, random_tile_coord) = Empty
         THEN /\ pc' = "done"
              /\ result' = Err("Panic")
              /\ UNCHANGED <<board, unreplacable_coords, filled_coords,
                             has_replaced_a_tile>>
         ELSE \E has_options \in
                    is_replacable_by_something_else(board, random_tile_coord) :
                LET tried == set_tile_receiver(board, random_tile_coord,
                                 LastTried(board, random_tile_coord))
                    pushed == push_unreplacable(unreplacable_coords,
                                  random_tile_coord, has_options)
                IN  IF has_options = "other"
                    THEN /\ pc' = "done"
                         /\ result' = Err("BoardGeneratorError")
                         /\ UNCHANGED <<board, unreplacable_coords,
                                        filled_coords, has_replaced_a_tile>>
                    ELSE IF not_replacable(has_options)
                    THEN /\ board' = set_tile(tried, random_tile_coord, Empty)
                         /\ has_replaced_a_tile' = TRUE
                         /\ unreplacable_coords' = pushed
                         /\ filled_coords' = {}
                         /\ pc' = "after_for"
                         /\ UNCHANGED result
                    ELSE /\ board' = tried
                         /\ unreplacable_coords' = pushed
                         /\ filled_coords' = filled_coords \ {random_tile_coord}
                         /\ UNCHANGED <<pc, has_replaced_a_tile, result>>
    /\ UNCHANGED <<max_tries, desired_cells_given, i, solved_board, writes>>

\* the loop ran out of coordinates
ForEnd ==
    /\ pc = "for"
    /\ filled_coords = {}
    /\ pc' = "after_for"
    /\ UNCHANGED <<max_tries, desired_cells_given, i, solved_board, board,
                   unreplacable_coords, filled_coords, has_replaced_a_tile,
                   result, writes>>

\* Err(NoDeletionsAvailable(board)): new_random goes to its next round
NoDeletionsAvailable ==
    /\ pc = "after_for"
    /\ ~has_replaced_a_tile
    /\ i' = i + 1
    /\ pc' = "new_random"
    /\ UNCHANGED <<max_tries, desired_cells_given, solved_board, board,
                   unreplacable_coords, filled_coords, has_replaced_a_tile,
                   result, writes>>

\* the return with `<=` for `==`
ReturnOkAtMost ==
    /\ pc = "after_for"
    /\ has_replaced_a_tile
    /\ Cardinality(get_filled_tile_coords(board)) <= desired_cells_given
    /\ pc' = "done"
    /\ result' = [kind |-> "Ok", current |-> board, solved |-> solved_board]
    /\ UNCHANGED <<max_tries, desired_cells_given, i, solved_board, board,
                   unreplacable_coords, filled_coords, has_replaced_a_tile,
                   writes>>

\* Ok(board): new_board returns (solved_board, emptied_board) and
\* new_random the Game
ReturnOk ==
    /\ pc = "after_for"
    /\ has_replaced_a_tile
    /\ Cardinality(get_filled_tile_coords(board)) = desired_cells_given
    /\ pc' = "done"
    /\ result' = [kind |-> "Ok", current |-> board, solved |-> solved_board]
    /\ UNCHANGED <<max_tries, desired_cells_given, i, solved_board, board,
                   unreplacable_coords, filled_coords, has_replaced_a_tile,
                   writes>>

\* return self.try_empty_board(board, desired_cells_given, unreplacable_coords)
Recurse ==
    /\ pc = "after_for"
    /\ has_replaced_a_tile
    /\ Cardinality(get_filled_tile_coords(board)) # desired_cells_given
    /\ pc' = "try_empty_board"
    /\ UNCHANGED <<max_tries, desired_cells_given, i, solved_board, board,
                   unreplacable_coords, filled_coords, has_replaced_a_tile,
                   result, writes>>

Next ==
    \/ NextTry
    \/ TriesExceeded
    \/ NewBoard
    \/ TryEmptyBoard
    \/ ForTile
    \/ ForEnd
    \/ NoDeletionsAvailable
    \/ ReturnOk
    \/ Recurse

Spec == Init /\ [][Next]_vars

\* the program is sequential: a step that can be taken is taken
FairSpec == Spec /\ WF_vars(Next)

(***************************************************************************)
(* try_fill_board on its own, applied to boards drawn from FillInputs      *)
(***************************************************************************)
\* SampleA with the tiles of `coords` emptied
Emptied(coords) ==
    FromGrid([c \in Coords |->
                 IF c \in coords THEN Empty ELSE get_tile(SampleA, c)])

\* the empty board, and SampleA with any of its first EmptiedSpan tiles
\* emptied and at most one tile overwritten with a digit
FillInputs ==
    LET emptied == {Emptied(e) : e \in SUBSET {c \in Coords :
                                                  ScanPos(c) < EmptiedSpan}}
    IN  {DefaultBoard} \cup emptied
        \cup {set_tile(b, c, d) : b \in emptied, c \in Coords, d \in Digits}

InitFill ==
    /\ pc = "try_fill_board"
    /\ board \in FillInputs
    /\ max_tries = 0
    /\ desired_cells_given = 0
    /\ i = 0
    /\ solved_board = DefaultBoard
    /\ unreplacable_coords = {}
    /\ filled_coords = {}
    /\ has_replaced_a_tile = FALSE
    /\ result = NoResult
    /\ writes = 0

\* one call try_fill_board(board), under one outcome of the shuffles
TryFillBoard ==
    /\ pc = "try_fill_board"
    /\ \E r \in try_fill_board(board) : result' = r
    /\ pc' = "returned"
    /\ UNCHANGED <<max_tries, desired_cells_given, i, solved_board, board,
                   unreplacable_coords, filled_coords, has_replaced_a_tile,
                   writes>>

NextFill == TryFillBoard

SpecFill == InitFill /\ [][NextFill]_vars

(***************************************************************************)
(* Board on its own: writes to Board::default()                            *)
(***************************************************************************)
InitBoard ==
    /\ pc = "board"
    /\ board = DefaultBoard
    /\ max_tries = 0
    /\ desired_cells_given = 0
    /\ i = 0
    /\ solved_board = DefaultBoard
    /\ unreplacable_coords = {}
    /\ filled_coords = {}
    /\ has_replaced_a_tile = FALSE
    /\ result = NoResult
    /\ writes = 0

\* board.set_tile_in_place(&coord, value)
SetTileInPlace ==
    /\ pc = "board"
    /\ writes < MaxWrites
    /\ \E coord \in Coords : \E value \in Tiles :
         board' = set_tile_in_place(board, coord, value)
    /\ writes' = writes + 1
    /\ UNCHANGED <<pc, max_tries, desired_cells_given, i, solved_board,
                   unreplacable_coords, filled_coords, has_replaced_a_tile,
                   result>>

\* board = board.set_tile(&coord, value)
SetTile ==
    /\ pc = "board"
    /\ writes < MaxWrites
    /\ \E coord \in Coords : \E value \in Tiles :
         board' = set_tile(board, coord, value)
    /\ writes' = writes + 1
    /\ UNCHANGED <<pc, max_tries, desired_cells_given, i, solved_board,
                   unreplacable_coords, filled_coords, has_replaced_a_tile,
                   result>>

NextBoard == SetTileInPlace \/ SetTile

SpecBoard == InitBoard /\ [][NextBoard]_vars

(***************************************************************************)
(* What the claims are stated in: a grid is the set of the placements      *)
(* [c |-> coordinate, n |-> digit] of the filled tiles, read off a board   *)
(* with get_tile                                                           *)
(***************************************************************************)
Grid(b) ==
    {[c |-> c, n |-> get_tile(b, c)] :
        c \in {d \in Coords : get_tile(b, d) # Empty}}

\* two coordinates of one row, one column or one block
SameUnit(c, d) ==
    \/ c.x = d.x
    \/ c.y = d.y
    \/ /\ c.x \div BLOCK_SIZE = d.x \div BLOCK_SIZE
       /\ c.y \div BLOCK_SIZE = d.y \div BLOCK_SIZE

\* every coordinate is filled
GridComplete(g) == \A c \in Coords : \E p \in g : p.c = c

\* no row, column or block holds a digit twice
GridValid(g) ==
    \A p \in g : \A q \in g :
        (p.c # q.c /\ SameUnit(p.c, q.c)) => p.n # q.n

\* h is a valid completion of g
IsCompletion(h, g) ==
    /\ GridComplete(h)
    /\ GridValid(h)
    /\ g \subseteq h

\* digit n can go to c: no other coordinate of its units holds it
Fits(g, c, n) == \A p \in g : (p.c # c /\ SameUnit(c, p.c)) => p.n # n

\* the first open coordinate of g
FirstOpen(g) == CHOOSE c \in Coords : \A p \in g : p.c # c

\* g with each digit that fits at its first open coordinate
Steps(g) ==
    {g \cup {[c |-> c, n |-> n]} :
        c \in {FirstOpen(g)}, n \in {m \in Digits : Fits(g, FirstOpen(g), m)}}

RECURSIVE Extensions(_)
Extensions(g) ==
    IF GridComplete(g) THEN {g}
    ELSE UNION {Extensions(h) : h \in Steps(g)}

\* the valid completions of g
Completions(g) == IF GridValid(g) THEN Extensions(g) ELSE {}

RECURSIVE Extendable(_)
Extendable(g) == GridComplete(g) \/ \E h \in Steps(g) : Extendable(h)

\* g has a valid completion
HasCompletion(g) == GridValid(g) /\ Extendable(g)

FilledCount(b) == Cardinality({c \in Coords : get_tile(b, c) # Empty})

InCarving == pc \in {"try_empty_board", "for", "after_for"}

(***************************************************************************)
(* The claims                                                              *)
(***************************************************************************)
\* C1: at every round of try_empty_board the working board has exactly one
\* valid completion, the solved board; and on the clue board of a
\* successful generation try_fill_board returns Ok(solved), whatever the
\* shuffles
C1_ClueHasOnlySolved ==
    /\ InCarving => Completions(Grid(board)) = {Grid(solved_board)}
    /\ result.kind = "Ok" =>
          /\ try_fill_board(result.current) = {Ok(result.solved)}
          /\ Completions(Grid(result.current)) = {Grid(result.solved)}

C1_Witness ==
    /\ pc = "done"
    /\ result.kind = "Ok"
    /\ unreplacable_coords # {}
    /\ FilledCount(result.current) < FreeCells

\* C2: a board try_fill_board returns as Ok from Board::default() is
\* complete and verifies: no tile is Empty, no row, column or block holds a
\* digit twice
C2_FilledBoardValid ==
    (pc = "returned" /\ board = DefaultBoard /\ result.kind = "Ok") =>
        /\ is_complete(result.board)
        /\ verify_board(result.board)
        /\ GridComplete(Grid(result.board))
        /\ GridValid(Grid(result.board))

C2_Witness ==
    /\ pc = "returned"
    /\ board = DefaultBoard
    /\ result.kind = "Ok"
    /\ result.board \notin SolvedSamples

\* C3: a board try_empty_board returns as Ok has exactly
\* desired_cells_given filled tiles
C3_ExactCount ==
    result.kind = "Ok" => FilledCount(result.current) = desired_cells_given

C3_Witness ==
    /\ pc = "done"
    /\ result.kind = "Ok"
    /\ desired_cells_given < FreeCells
    /\ FilledCount(result.current) = desired_cells_given

\* C4: the working board of try_empty_board differs from the solved board
\* only in tiles that are Empty, and so does the clue board returned
C4_ClueWithinSolved ==
    /\ \A c \in Coords :
          get_tile(board, c) \in {Empty, get_tile(solved_board, c)}
    /\ result.kind = "Ok" =>
          \A c \in Coords :
              get_tile(result.current, c) \in {Empty, get_tile(result.solved, c)}

C4_Witness ==
    /\ InCarving
    /\ unreplacable_coords # {}
    /\ \E c \in Coords : get_tile(board, c) = Empty
    /\ \E c \in Coords : get_tile(board, c) = get_tile(solved_board, c)
                         /\ get_tile(board, c) # Empty

\* C5: on a board that has a valid completion try_fill_board returns Ok,
\* with one of the completions, under every shuffle; it returns
\* NoNumberAvailable only on a board that has none
C5_FillFindsCompletion ==
    pc = "returned" =>
        /\ HasCompletion(Grid(board)) =>
              /\ result.kind = "Ok"
              /\ IsCompletion(Grid(result.board), Grid(board))
        /\ result.kind = "NoNumberAvailable" => ~HasCompletion(Grid(board))

C5_Witness ==
    /\ pc = "returned"
    /\ result.kind = "Ok"
    /\ ~is_complete(board)
    /\ board # DefaultBoard
    /\ Cardinality(Completions(Grid(board))) > 1

\* C6: on every board, consistent or not, complete or not, try_fill_board
\* fails or returns a complete board that verifies; it fails on a board
\* with no valid completion
C6_FillOkIsValid ==
    (pc = "returned" /\ result.kind = "Ok") =>
        /\ is_complete(result.board)
        /\ verify_board(result.board)
        /\ HasCompletion(Grid(board))

\* C7: with desired_cells_given = BOARD_CELLS and one try, generation
\* succeeds and the clue board is the solved board, no tile removed
C7_FullTargetReturnsSolved ==
    (pc = "done" /\ max_tries = 1 /\ desired_cells_given = BOARD_CELLS) =>
        /\ result.kind = "Ok"
        /\ result.current = result.solved
        /\ FilledCount(result.current) = BOARD_CELLS

\* C8: new_random terminates; it runs at most max_tries attempts, a new
\* attempt starts only after the one before ended NoDeletionsAvailable, the
\* first successful attempt is the result, and TriesExceeded is the result
\* exactly when max_tries attempts ended NoDeletionsAvailable
C8_Terminates ==
    /\ <>(pc = "done")
    /\ [](pc = "done" => result.kind \in {"Ok", "TriesExceeded"})
    /\ [](i <= max_tries)
    /\ []((pc = "new_board" \/ InCarving) => i < max_tries)
    /\ [](result.kind = "Ok" => i < max_tries)
    /\ [](result.kind = "TriesExceeded" <=> (pc = "done" /\ i = max_tries))
    /\ [][(pc' = "new_board" /\ pc # "new_board") =>
              (pc = "new_random" /\ i' = i)]_vars
    /\ [][(pc' = "new_random" /\ pc # "new_random") =>
              (pc = "after_for" /\ ~has_replaced_a_tile /\ i' = i + 1)]_vars
    /\ [][(pc = "done") => (pc' = "done" /\ result' = result)]_vars

C8_Witness ==
    /\ pc = "done"
    /\ result.kind = "Ok"
    /\ i = 1
    /\ max_tries = 2

\* C9: after any writes to Board::default() the three views agree at every
\* coordinate, and a write changes the value of no other coordinate in any
\* view
ViewsAgree(b) ==
    \A c \in Coords :
        /\ b.rows[c.y][c.x] = b.columns[c.x][c.y]
        /\ b.rows[c.y][c.x] = b.blocks[to_block_index(c)][to_index_in_block(c)]

SameAt(b1, b2, c) ==
    /\ b1.rows[c.y][c.x] = b2.rows[c.y][c.x]
    /\ b1.columns[c.x][c.y] = b2.columns[c.x][c.y]
    /\ b1.blocks[to_block_index(c)][to_index_in_block(c)]
          = b2.blocks[to_block_index(c)][to_index_in_block(c)]

C9_ViewsAgree ==
    /\ [](ViewsAgree(board))
    /\ [][\E c \in Coords : \A d \in Coords \ {c} : SameAt(board, board', d)]_vars

C9_Witness ==
    /\ writes = MaxWrites
    /\ \E c \in Coords : \E d \in Coords :
          /\ c # d
          /\ to_block_index(c) = to_block_index(d)
          /\ get_tile(board, c) # Empty
          /\ get_tile(board, d) # Empty

\* C10: a coordinate in unreplacable_coords is never emptied later in the
\* run, and on every later working board a trial of it would again find a
\* digit that completes
C10_UnreplacableStays ==
    \A c \in unreplacable_coords :
        /\ get_tile(board, c) # Empty
        /\ is_replacable_by_something_else(board, c) = {"true"}

C10_Witness ==
    /\ pc = "after_for"
    /\ has_replaced_a_tile
    /\ Cardinality(unreplacable_coords) > 1
====
